---- MODULE Spec2Model ----
(***************************************************************************)
(* A model of the hackernews-companion comment engine:                     *)
(*   - flattenComments   (tui/utils.ts)       the tree projector           *)
(*   - PostView/FeedView (tui/components)     the viewport windows         *)
(*   - HackerNewsPost    (hackernews-post.ts) the cached comment-tree build*)
(*   - App               (tui/App.tsx)        the view state machine       *)
(* Each part has its own specification over its own variables; the         *)
(* variables of the other parts stay at their idle values.                 *)
(***************************************************************************)
EXTENDS Integers, Sequences, FiniteSets, Bags, TLC

VARIABLES
    \* --- projector (flattenComments) ---
    tree,            \* comments: Comment[]  - the resolved tree handed to flattenComments
    collapsedSet,    \* Set<number>           - the collapse set
    flat,            \* FlatComment[]         - flatComments, the last projection
    \* --- viewport windows (PostView, FeedView) ---
    term,            \* the render inputs: terminal rows, header lines, list length, selection
    win,             \* component -> the (startIndex, endIndex) it last computed
    \* --- HackerNewsPost ---
    items,           \* the item graph served by the API: id -> [status, kids]
    commentIds,      \* HackerNewsPost.commentIds
    commentsCache,   \* HackerNewsPost.commentsCache
    calls,           \* the getComments()/getAllCommentsFlat() invocations, each with its position
    lastResult,      \* what the call that resolved last returned (NoCache: none, or cleared since)
    clearedSince,    \* clearCommentsCache() ran and no getComments() call has started since
    clears,          \* number of clearCommentsCache() calls so far
    \* --- App (tui/App.tsx) ---
    state,           \* AppState, the value held by useState
    pending,         \* the bag of loadFeed / loadPostDetails invocations suspended at their await
    event,           \* the input event or completion handled last
    exited,          \* exit() has been called
    logged,          \* the events the step handled last appended to logger.events
    currentPostId,   \* EventLogger.currentPostId, the post tracked as open (NoPost: null)
    previousFeedType,\* the ref previousFeedType.current
    requested,       \* history: the feed type loadFeed was called with last
    \* --- EventLogger on its own ---
    events,          \* EventLogger.events
    filtered,        \* what the last getFilteredEvents(filter) call returned, with its filter
    \* --- new HackerNewsPost(item) ---
    newItem,         \* the HackerNewsItem payload handed to the constructor
    thisPost,        \* the HackerNewsPost constructed (NoObject: none)
    thrown,          \* the message of the Error the constructor threw (NoError: none)
    \* --- HackerNewsClient ---
    server,          \* what the API serves: the id list, what each id gives, the failures
    getCall          \* the getPosts() / getPostsByUser() invocation and its position

flattenVars == <<tree, collapsedSet, flat>>
windowVars  == <<term, win>>
postVars    == <<items, commentIds, commentsCache, calls, lastResult, clearedSince, clears>>
uiVars      == <<state, pending, event, exited>>
loggerVars  == <<logged, currentPostId, previousFeedType>>
filterVars  == <<events, filtered>>
appVars     == <<uiVars, loggerVars, requested, filterVars>>
constructVars == <<newItem, thisPost, thrown>>
clientVars  == <<server, getCall>>
libraryVars == <<constructVars, clientVars>>
vars        == <<flattenVars, windowVars, postVars, appVars, libraryVars>>

(***************************************************************************)
(* Bounds                                                                  *)
(***************************************************************************)
MaxId == 4
MaxRows == 40
MaxLen == 8
MaxExtraLines == 1
MaxItems == 2
MaxCalls == 3
MaxClears == 1
MaxDepth == 5
MaxPending == 2
MaxLimit == 2
MaxStories == 3

(***************************************************************************)
(* Helpers                                                                 *)
(***************************************************************************)
Max(a, b) == IF a >= b THEN a ELSE b
Min(a, b) == IF a <= b THEN a ELSE b
\* Math.floor(a / b) for b > 0
Floor(a, b) == a \div b

(***************************************************************************)
(* Comment trees                                                           *)
(***************************************************************************)
\* A Comment is [id, replies]; the other fields (author, text, time, parent)
\* play no part in tree shape.
Node(i, rs) == [id |-> i, replies |-> rs]

\* every ordered forest whose nodes carry exactly the ids of S, each once
RECURSIVE Forests(_)
Forests(S) ==
    IF S = {} THEN {<<>>}
    ELSE UNION { UNION { { <<Node(r, f1)>> \o f2 :
                             f1 \in Forests(A), f2 \in Forests((S \ {r}) \ A) } :
                         A \in SUBSET (S \ {r}) } :
                 r \in S }

ForestsOver(S) == UNION { Forests(A) : A \in SUBSET S }

RECURSIVE TreeIds(_)
TreeIds(comments) ==
    IF comments = <<>> THEN {}
    ELSE {Head(comments).id} \cup TreeIds(Head(comments).replies) \cup TreeIds(Tail(comments))

\* ids of the proper ancestors of the node i in the forest (path = ancestors so far)
RECURSIVE AncestorsIn(_, _, _)
AncestorsIn(comments, i, path) ==
    IF comments = <<>> THEN {}
    ELSE LET c == Head(comments)
         IN  (IF c.id = i THEN path ELSE AncestorsIn(c.replies, i, path \cup {c.id}))
             \cup AncestorsIn(Tail(comments), i, path)

Ancestors(comments, i) == AncestorsIn(comments, i, {})

(***************************************************************************)
(* flattenComments                                                         *)
(***************************************************************************)
FlatComment(c, depth, isCollapsed) ==
    [id |-> c.id, depth |-> depth, isCollapsed |-> isCollapsed, replies |-> <<>>]

\* faulty variant: children are added whether or not the comment is collapsed
RECURSIVE flattenIgnoringCollapse(_, _, _)
flattenIgnoringCollapse(comments, collapsed, depth) ==
    IF comments = <<>> THEN <<>>
    ELSE LET c == Head(comments)
             isCollapsed == c.id \in collapsed
         IN  <<FlatComment(c, depth, isCollapsed)>>
             \o (IF Len(c.replies) > 0
                 THEN flattenIgnoringCollapse(c.replies, collapsed, depth + 1)
                 ELSE <<>>)
             \o flattenIgnoringCollapse(Tail(comments), collapsed, depth)

\* faulty variant: a collapsed comment is dropped together with its children
RECURSIVE flattenDroppingCollapsed(_, _, _)
flattenDroppingCollapsed(comments, collapsed, depth) ==
    IF comments = <<>> THEN <<>>
    ELSE LET c == Head(comments)
             isCollapsed == c.id \in collapsed
         IN  (IF isCollapsed THEN <<>>
              ELSE <<FlatComment(c, depth, isCollapsed)>>
                   \o flattenDroppingCollapsed(c.replies, collapsed, depth + 1))
             \o flattenDroppingCollapsed(Tail(comments), collapsed, depth)

\* faulty variant: the replies are emitted at the depth of their parent
RECURSIVE flattenCommentsLevel(_, _, _)
flattenCommentsLevel(comments, collapsed, depth) ==
    IF comments = <<>> THEN <<>>
    ELSE LET c == Head(comments)
             isCollapsed == c.id \in collapsed
         IN  <<FlatComment(c, depth, isCollapsed)>>
             \o (IF ~isCollapsed /\ Len(c.replies) > 0
                 THEN flattenCommentsLevel(c.replies, collapsed, depth)
                 ELSE <<>>)
             \o flattenCommentsLevel(Tail(comments), collapsed, depth)

RECURSIVE flattenComments(_, _, _)
flattenComments(comments, collapsed, depth) ==
    IF comments = <<>> THEN <<>>
    ELSE LET c == Head(comments)
             isCollapsed == c.id \in collapsed
         IN  <<FlatComment(c, depth, isCollapsed)>>
             \o (IF ~isCollapsed /\ Len(c.replies) > 0
                 THEN flattenComments(c.replies, collapsed, depth + 1)
                 ELSE <<>>)
             \o flattenComments(Tail(comments), collapsed, depth)

(***************************************************************************)
(* Idle values of each part                                                *)
(***************************************************************************)
NoWindow == <<-1, -1>>
Components == {"PostView", "PostViewLegacy", "FeedView"}

FlattenIdle ==
    /\ tree = <<>>
    /\ collapsedSet = {}
    /\ flat = <<>>

WindowIdle ==
    /\ term = [rows |-> 24, titleLines |-> 0, textLines |-> 0, len |-> 0, sel |-> 0]
    /\ win = [c \in Components |-> NoWindow]

NoCache == [inst |-> 0, tree |-> <<>>]

NoPost == 0

LoggerIdle ==
    /\ logged = <<>>
    /\ currentPostId = NoPost
    /\ previousFeedType = "top"
    /\ requested = "top"

FilterIdle ==
    /\ events = <<>>
    /\ filtered = <<>>

UiIdle ==
    /\ state = <<>>
    /\ pending = <<>>
    /\ event = <<>>
    /\ exited = FALSE
    /\ LoggerIdle

AppIdle ==
    /\ UiIdle
    /\ FilterIdle

NoObject == <<>>
NoError == "null"

ConstructIdle ==
    /\ newItem = <<>>
    /\ thisPost = NoObject
    /\ thrown = NoError

ClientIdle ==
    /\ server = <<>>
    /\ getCall = <<>>

LibraryIdle == ConstructIdle /\ ClientIdle

PostIdle ==
    /\ items = <<>>
    /\ commentIds = <<>>
    /\ commentsCache = NoCache
    /\ calls = <<>>
    /\ lastResult = NoCache
    /\ clearedSince = FALSE
    /\ clears = 0

(***************************************************************************)
(* Specification of the projector: the post view holds any resolved tree   *)
(* (distinct ids), starts with nothing collapsed and toggles the selected  *)
(* visible comment.                                                        *)
(***************************************************************************)
Ids == 1..MaxId

\* loadPostDetails: flatComments = flattenComments(comments, new Set())
InitFlatten ==
    /\ tree \in ForestsOver(Ids)
    /\ collapsedSet = {}
    /\ flat = flattenComments(tree, {}, 0)
    /\ WindowIdle
    /\ PostIdle
    /\ AppIdle
    /\ LibraryIdle

\* newCollapsed: has(id) ? delete(id) : add(id)
toggle(collapsed, i) == IF i \in collapsed THEN collapsed \ {i} ELSE collapsed \cup {i}

\* handlePostInput, input === ' ', on the comment selected at index k of flatComments
ToggleCollapse(k) ==
    /\ k \in 1..Len(flat)
    /\ collapsedSet' = toggle(collapsedSet, flat[k].id)
    /\ flat' = flattenComments(tree, collapsedSet', 0)
    /\ UNCHANGED <<tree, windowVars, postVars, appVars, libraryVars>>

NextFlatten == \E k \in 1..MaxId : ToggleCollapse(k)

SpecFlatten == InitFlatten /\ [][NextFlatten]_vars

FlatIds == { flat[k].id : k \in 1..Len(flat) }
Occurrences(i) == Cardinality({ k \in 1..Len(flat) : flat[k].id = i })

\* C1: for any tree T and any collapse set C, flattenComments(T, C) holds no
\* comment that is a proper descendant of a comment whose id is in C.
C1_NoDescendantOfCollapsed ==
    \A k \in 1..Len(flat) : Ancestors(tree, flat[k].id) \cap collapsedSet = {}

\* a collapsed comment is shown while its reply and its reply's reply are hidden
C1_Witness ==
    \E i \in collapsedSet :
       \E j \in TreeIds(tree) :
          /\ i \in Ancestors(tree, j)
          /\ Cardinality(Ancestors(tree, j)) >= 2
          /\ j \notin FlatIds
          /\ i \in FlatIds

\* C2 as stated: every comment of T whose id is in C appears in
\* flattenComments(T, C) exactly once, flagged isCollapsed.
C2_Original ==
    \A i \in collapsedSet :
        /\ Occurrences(i) = 1
        /\ \A k \in 1..Len(flat) : flat[k].id = i => flat[k].isCollapsed

\* C2 amended: every comment of T whose id is in C and none of whose proper
\* ancestors has its id in C appears in flattenComments(T, C) exactly once,
\* flagged isCollapsed (a collapsed comment below another collapsed comment is
\* hidden with it).
C2_OutermostCollapsedOnce ==
    \A i \in collapsedSet :
        Ancestors(tree, i) \cap collapsedSet = {} =>
            /\ Occurrences(i) = 1
            /\ \A k \in 1..Len(flat) : flat[k].id = i => flat[k].isCollapsed

\* an outermost collapsed comment with replies is shown once, next to a
\* sibling that is not collapsed
C2_Witness ==
    \E i \in collapsedSet :
       /\ Ancestors(tree, i) \cap collapsedSet = {}
       /\ \E j \in TreeIds(tree) : i \in Ancestors(tree, j)
       /\ Occurrences(i) = 1
       /\ Len(flat) >= 2

(***************************************************************************)
(* Viewport windows                                                        *)
(***************************************************************************)
HeaderBaseLines == 9
FooterLines == 2
LinesPerComment == 7
MinAvailableLines == 10
PostTextLinesCap == 3
LegacyLinesPerComment == 3
FeedReservedLines == 5
LinesPerPost == 3

\* PostView: Math.max(1, Math.floor(Math.max(10, rows - headerLines - footerLines) / 7))
maxVisibleComments(rows, titleLines, textLines) ==
    LET postTextLines == Min(PostTextLinesCap, textLines)
        headerLines == HeaderBaseLines + titleLines + postTextLines
        availableLines == Max(MinAvailableLines, rows - headerLines - FooterLines)
    IN  Max(1, Floor(availableLines, LinesPerComment))

\* the earlier PostView: Math.floor((rows - headerLines - footerLines) / 3)
maxVisibleCommentsLegacy(rows, textLines) ==
    LET headerLines == HeaderBaseLines + textLines
    IN  Floor(rows - headerLines - FooterLines, LegacyLinesPerComment)

\* FeedView: Math.floor((rows - 5) / 3)
maxVisiblePosts(rows) == Floor(rows - FeedReservedLines, LinesPerPost)

\* faulty variant: the window is not pulled back when it runs into the end of the list
commentWindowNoAdjust(selectedCommentIndex, length, maxVisible) ==
    IF maxVisible <= 0 THEN <<0, 0>>
    ELSE LET half == Floor(maxVisible, 2)
             start == Max(0, selectedCommentIndex - half)
             end == Min(length, start + maxVisible)
         IN  <<start, end>>

\* faulty variant: half is rounded up
commentWindowHalfUp(selectedCommentIndex, length, maxVisible) ==
    IF maxVisible <= 0 THEN <<0, 0>>
    ELSE LET half == Floor(maxVisible + 1, 2)
             start == Max(0, selectedCommentIndex - half)
             end == Min(length, start + maxVisible)
         IN  IF end - start < maxVisible THEN <<Max(0, end - maxVisible), end>>
             ELSE <<start, end>>

\* PostView: the useMemo computing { startIndex, endIndex }
commentWindow(selectedCommentIndex, length, maxVisible) ==
    IF maxVisible <= 0 THEN <<0, 0>>
    ELSE LET half == Floor(maxVisible, 2)
             start == Max(0, selectedCommentIndex - half)
             end == Min(length, start + maxVisible)
         IN  IF end - start < maxVisible THEN <<Max(0, end - maxVisible), end>>
             ELSE <<start, end>>

\* FeedView: the useMemo computing { startIndex, endIndex } (no capacity guard)
postWindow(selectedIndex, length, maxVisible) ==
    LET half == Floor(maxVisible, 2)
        start == Max(0, selectedIndex - half)
        end == Min(length, start + maxVisible)
    IN  IF end - start < maxVisible THEN <<Max(0, end - maxVisible), end>>
        ELSE <<start, end>>

\* the capacity each component derives from the render inputs
Capacity(c) ==
    CASE c = "PostView" -> maxVisibleComments(term.rows, term.titleLines, term.textLines)
      [] c = "PostViewLegacy" -> maxVisibleCommentsLegacy(term.rows, term.textLines)
      [] c = "FeedView" -> maxVisiblePosts(term.rows)

\* the spec's scenario: 100 entries, selection 50, room for 10 comments
WindowScenario == [rows |-> 81, titleLines |-> 0, textLines |-> 0, len |-> 100, sel |-> 50]

TermInputs ==
    { [rows |-> r, titleLines |-> t, textLines |-> x, len |-> n, sel |-> i] :
        r \in 1..MaxRows, t \in 0..MaxExtraLines, x \in 0..MaxExtraLines,
        n \in 0..MaxLen, i \in 0..MaxLen }

InitWindow ==
    /\ term \in { t \in TermInputs : t.sel < Max(t.len, 1) } \cup {WindowScenario}
    /\ win = [c \in Components |-> NoWindow]
    /\ FlattenIdle
    /\ PostIdle
    /\ AppIdle
    /\ LibraryIdle

RenderPostView ==
    /\ win' = [win EXCEPT !["PostView"] = commentWindow(term.sel, term.len, Capacity("PostView"))]
    /\ UNCHANGED <<term, flattenVars, postVars, appVars, libraryVars>>

RenderPostViewLegacy ==
    /\ win' = [win EXCEPT !["PostViewLegacy"] =
                  commentWindow(term.sel, term.len, Capacity("PostViewLegacy"))]
    /\ UNCHANGED <<term, flattenVars, postVars, appVars, libraryVars>>

RenderFeedView ==
    /\ win' = [win EXCEPT !["FeedView"] = postWindow(term.sel, term.len, Capacity("FeedView"))]
    /\ UNCHANGED <<term, flattenVars, postVars, appVars, libraryVars>>

NextWindow == RenderPostView \/ RenderPostViewLegacy \/ RenderFeedView

SpecWindow == InitWindow /\ [][NextWindow]_vars

CommentViews == {"PostView", "PostViewLegacy"}

\* C3: for len >= 1, capacity >= 1 and 0 <= i < len the comment window (start, end)
\* has 0 <= start <= i < end <= len and end - start = min(capacity, len).
C3_WindowHoldsSelection ==
    \A c \in CommentViews :
        (win[c] # NoWindow /\ term.len >= 1 /\ Capacity(c) >= 1) =>
            /\ 0 <= win[c][1]
            /\ win[c][1] <= term.sel
            /\ term.sel < win[c][2]
            /\ win[c][2] <= term.len
            /\ win[c][2] - win[c][1] = Min(Capacity(c), term.len)

\* the last of more comments than fit is selected: the window is pulled back to the end
C3_Witness ==
    \E c \in CommentViews :
        /\ win[c] # NoWindow
        /\ Capacity(c) >= 2
        /\ term.len > Capacity(c)
        /\ term.sel = term.len - 1
        /\ win[c] = <<term.len - Capacity(c), term.len>>

\* the reference centering policy
Clamp(x, lo, hi) == Max(lo, Min(x, hi))
CenteredWindow(i, len, cap) ==
    IF len > cap
    THEN LET start == Clamp(i - (cap \div 2), 0, len - cap) IN <<start, start + cap>>
    ELSE <<0, len>>

\* C4: for every in-range selection and capacity >= 1 the comment window equals the
\* centering policy: start = clamp(i - floor(cap/2), 0, len - cap), end = start + cap
\* when len > cap, and (0, len) otherwise; len = 100, i = 50, cap = 10 gives (45, 55).
C4_WindowIsCentered ==
    \A c \in CommentViews :
        (win[c] # NoWindow /\ term.len >= 1 /\ Capacity(c) >= 1) =>
            /\ win[c] = CenteredWindow(term.sel, term.len, Capacity(c))
            /\ (term.len = 100 /\ term.sel = 50 /\ Capacity(c) = 10) => win[c] = <<45, 55>>

\* the scenario has been rendered
C4_Witness ==
    /\ term.len = 100
    /\ term.sel = 50
    /\ Capacity("PostView") = 10
    /\ win["PostView"] = <<45, 55>>

\* C5 as stated: whenever the computed capacity is <= 0 the window is (0, 0), in
\* the comment views and in the feed view.
C5_EmptyWindowWithoutCapacity ==
    \A c \in Components :
        (win[c] # NoWindow /\ Capacity(c) <= 0) => win[c] = <<0, 0>>

(***************************************************************************)
(* HackerNewsPost: the item graph, getComments, fetchCommentTree           *)
(***************************************************************************)
\* what the fetch of an item comes to:
\*   ok       a live item                 notok    a response with !response.ok
\*   null     the body is null            deleted  item.deleted === true
\*   dead     item.dead === true          error    fetch() or response.json() throws
Statuses == {"ok", "notok", "null", "deleted", "dead", "error"}

RECURSIVE IdsOf(_)
IdsOf(comments) ==
    IF comments = <<>> THEN <<>> ELSE <<Head(comments).id>> \o IdsOf(Tail(comments))

\* the kids list of item i in a graph shaped like the forest f
RECURSIVE KidsIn(_, _)
KidsIn(f, i) ==
    IF f = <<>> THEN <<>>
    ELSE IF Head(f).id = i THEN IdsOf(Head(f).replies)
    ELSE KidsIn(Head(f).replies, i) \o KidsIn(Tail(f), i)

\* the item graph shaped like the forest f, with the status st[i] for item i
GraphOf(f, st) == [i \in TreeIds(f) |-> [status |-> st[i], kids |-> KidsIn(f, i)]]

\* the spec's scenario: kids = [10, 11], 11 is deleted, 10 has kids = [20]
ScenarioItems ==
    (10 :> [status |-> "ok", kids |-> <<20>>]) @@
    (11 :> [status |-> "deleted", kids |-> <<>>]) @@
    (20 :> [status |-> "ok", kids |-> <<>>])
ScenarioCommentIds == <<10, 11>>

Kinds == {"getComments", "getAllCommentsFlat"}
\* findComment(commentId) is the third entry point; it goes through getAllCommentsFlat
AllKinds == Kinds \cup {"findComment"}
CallIds == 1..MaxCalls

\* a loop over a kids list, suspended at `await this.fetchCommentTree(kids[k])`:
\* the loop of getComments (id 0, over commentIds) or of fetchCommentTree(id)
Frame(i, kids) == [id |-> i, kids |-> kids, k |-> 1, acc |-> <<>>]

IdleCall ==
    [pc |-> "idle", kind |-> "getComments", stack |-> <<>>, result |-> NoCache,
     flatResult |-> <<>>, fetched |-> <<>>, prev |-> NoCache, afterClear |-> FALSE,
     commentId |-> 0, found |-> 0]

\* faulty variant: the siblings are pushed before the replies
RECURSIVE allCommentsSiblingsFirst(_)
allCommentsSiblingsFirst(comments) ==
    IF comments = <<>> THEN <<>>
    ELSE <<Head(comments)>>
         \o allCommentsSiblingsFirst(Tail(comments))
         \o allCommentsSiblingsFirst(Head(comments).replies)

\* faulty variant: a comment is pushed after its replies
RECURSIVE allCommentsRepliesFirst(_)
allCommentsRepliesFirst(comments) ==
    IF comments = <<>> THEN <<>>
    ELSE (IF Len(Head(comments).replies) > 0
          THEN allCommentsRepliesFirst(Head(comments).replies) ELSE <<>>)
         \o <<Head(comments)>>
         \o allCommentsRepliesFirst(Tail(comments))


\* getAllCommentsFlat: the pre-order walk pushing every comment
RECURSIVE allCommentsFlat(_)
allCommentsFlat(comments) ==
    IF comments = <<>> THEN <<>>
    ELSE <<Head(comments)>>
         \o (IF Len(Head(comments).replies) > 0
             THEN allCommentsFlat(Head(comments).replies) ELSE <<>>)
         \o allCommentsFlat(Tail(comments))

\* faulty variant: the last match is taken
findLast(allComments, commentId) ==
    IF \E p \in 1..Len(allComments) : allComments[p].id = commentId
    THEN CHOOSE p \in 1..Len(allComments) :
            /\ allComments[p].id = commentId
            /\ \A q \in (p + 1)..Len(allComments) : allComments[q].id # commentId
    ELSE 0

\* allComments.find((c) => c.id === commentId) ?? null: the place of the first
\* match in allComments (the comment returned is the one at that place), 0 for null
RECURSIVE findFrom(_, _, _)
findFrom(allComments, commentId, p) ==
    IF p > Len(allComments) THEN 0
    ELSE IF allComments[p].id = commentId THEN p
    ELSE findFrom(allComments, commentId, p + 1)

find(allComments, commentId) == findFrom(allComments, commentId, 1)

\* faulty variant: deleted items are not filtered
absentIgnoringDeleted(status) == status \in {"notok", "null", "dead"}

\* `!response.ok`, `item === null || item.deleted === true || item.dead === true`
absent(status) == status \in {"notok", "null", "deleted", "dead"}

\* faulty variant: the resolved comment is put in front
unshift(acc, ret) == ret \o acc

\* `if (comment !== null) comments.push(comment)` (ret is <<>> for null)
push(acc, ret) == acc \o ret

\* the awaiting loop resumes with the value fetchCommentTree resolved to: it
\* pushes it, and either awaits the next kid, or completes its own comment and
\* resumes its caller, or (the loop of getComments) finishes the build
RECURSIVE resume(_, _)
resume(stack, ret) ==
    LET top == stack[Len(stack)]
        acc == push(top.acc, ret)
    IN  IF top.k < Len(top.kids)
        THEN [kind |-> "await",
              stack |-> [stack EXCEPT ![Len(stack)] = [top EXCEPT !.k = top.k + 1, !.acc = acc]],
              tree |-> <<>>]
        ELSE IF Len(stack) = 1
        THEN [kind |-> "done", stack |-> <<>>, tree |-> acc]
        ELSE resume(SubSeq(stack, 1, Len(stack) - 1), <<Node(top.id, acc)>>)

\* faulty variant: no try/catch, the error propagates and getComments rejects
rethrow(stack) == [kind |-> "rejected", stack |-> <<>>, tree |-> <<>>]

\* `catch (error) { console.error(...); return null; }`
catch(stack) == resume(stack, <<>>)

\* faulty variant: the comment is returned before its replies are fetched
fetchCommentTreeShallow(stack, x) ==
    LET item == items[x]
    IN  IF item.status = "error" THEN catch(stack)
        ELSE IF absent(item.status) THEN resume(stack, <<>>)
        ELSE resume(stack, <<Node(x, <<>>)>>)

\* fetchCommentTree(x) from the arrival of its response on, up to the next await
fetchCommentTree(stack, x) ==
    LET item == items[x]
    IN  IF item.status = "error" THEN catch(stack)
        ELSE IF absent(item.status) THEN resume(stack, <<>>)
        ELSE IF Len(item.kids) > 0
        THEN [kind |-> "await", stack |-> Append(stack, Frame(x, item.kids)), tree |-> <<>>]
        ELSE resume(stack, <<Node(x, <<>>)>>)

\* faulty variant: the finished build is not kept
storeNothing(c, comments) == NoCache

\* `this.commentsCache = comments`: the array built by call c
storeCache(c, comments) == [inst |-> c, tree |-> comments]

\* what the caller of `kind` gets from the resolved getComments()
Resolved(call, res) ==
    LET allComments == IF call.kind \in {"getAllCommentsFlat", "findComment"}
                       THEN allCommentsFlat(res.tree) ELSE <<>>
    IN  [call EXCEPT !.pc = "done", !.stack = <<>>, !.result = res,
                     !.flatResult = allComments,
                     !.found = IF call.kind = "findComment"
                               THEN find(allComments, call.commentId) ELSE 0]

\* getComments() / getAllCommentsFlat() / findComment(commentId) is called: up to
\* the first await
Begin(c, kind, commentId) ==
    /\ calls[c].pc = "idle"
    /\ \A d \in CallIds : d < c => calls[d].pc # "idle"
    /\ LET call == [calls[c] EXCEPT !.kind = kind, !.prev = lastResult,
                                    !.afterClear = clearedSince,
                                    !.commentId = commentId]
       IN  IF commentsCache # NoCache
           THEN /\ calls' = [calls EXCEPT ![c] = Resolved(call, commentsCache)]
                /\ lastResult' = commentsCache
                /\ UNCHANGED commentsCache
           ELSE IF commentIds = <<>>
           THEN /\ calls' = [calls EXCEPT ![c] = Resolved(call, [inst |-> c, tree |-> <<>>])]
                /\ commentsCache' = storeCache(c, <<>>)
                /\ lastResult' = [inst |-> c, tree |-> <<>>]
           ELSE /\ calls' = [calls EXCEPT ![c] =
                               [call EXCEPT !.pc = "fetching", !.stack = <<Frame(0, commentIds)>>]]
                /\ UNCHANGED <<commentsCache, lastResult>>
    /\ clearedSince' = FALSE
    /\ UNCHANGED <<items, commentIds, clears, flattenVars, windowVars, appVars, libraryVars>>

Start(c, kind) == Begin(c, kind, 0)

\* the response of the one fetch call c awaits arrives
FetchComplete(c) ==
    /\ calls[c].pc = "fetching"
    /\ LET st == calls[c].stack
           top == st[Len(st)]
           x == top.kids[top.k]
           r == fetchCommentTree(st, x)
           call == [calls[c] EXCEPT !.fetched = Append(@, x)]
       IN  CASE r.kind = "await" ->
                  /\ calls' = [calls EXCEPT ![c] = [call EXCEPT !.stack = r.stack]]
                  /\ UNCHANGED <<commentsCache, lastResult>>
             [] r.kind = "done" ->
                  /\ calls' = [calls EXCEPT ![c] = Resolved(call, [inst |-> c, tree |-> r.tree])]
                  /\ commentsCache' = storeCache(c, r.tree)
                  /\ lastResult' = [inst |-> c, tree |-> r.tree]
             [] r.kind = "rejected" ->
                  /\ calls' = [calls EXCEPT ![c] = [call EXCEPT !.pc = "rejected", !.stack = <<>>]]
                  /\ UNCHANGED <<commentsCache, lastResult>>
    /\ UNCHANGED <<items, commentIds, clearedSince, clears, flattenVars, windowVars, appVars, libraryVars>>

\* clearCommentsCache()
clearCommentsCache ==
    /\ clears < MaxClears
    /\ commentsCache' = NoCache
    /\ lastResult' = NoCache
    /\ clearedSince' = TRUE
    /\ clears' = clears + 1
    /\ UNCHANGED <<items, commentIds, calls, flattenVars, windowVars, appVars, libraryVars>>

PostStart ==
    /\ commentsCache = NoCache
    /\ calls = [c \in CallIds |-> IdleCall]
    /\ lastResult = NoCache
    /\ clearedSince = FALSE
    /\ clears = 0

(***************************************************************************)
(* Specification of one tree build: any tree-shaped item graph of up to    *)
(* MaxItems items, or over the three ids of the spec's scenario, with      *)
(* every item in any status.                                               *)
(***************************************************************************)
ScenarioIds == DOMAIN ScenarioItems
\* an id no item of the post has
NoSuchId == 999999999

InitBuild ==
    /\ \E f \in ForestsOver(1..MaxItems) \cup Forests(ScenarioIds) :
          \E st \in [TreeIds(f) -> Statuses] :
             /\ items = GraphOf(f, st)
             /\ commentIds = IdsOf(f)
    /\ PostStart
    /\ FlattenIdle
    /\ WindowIdle
    /\ AppIdle
    /\ LibraryIdle

NextBuild == (\E kind \in Kinds : Start(1, kind)) \/ FetchComplete(1)

SpecBuild == InitBuild /\ [][NextBuild]_vars

(***************************************************************************)
(* Specification of the cache: calls overlap with one another and with     *)
(* clearCommentsCache(), on the scenario post and on a post without kids.  *)
(***************************************************************************)
InitCache ==
    /\ \/ /\ items = ScenarioItems
          /\ commentIds = ScenarioCommentIds
       \/ /\ items = ScenarioItems
          /\ commentIds = <<>>
    /\ PostStart
    /\ FlattenIdle
    /\ WindowIdle
    /\ AppIdle
    /\ LibraryIdle

NextCache ==
    \/ \E c \in CallIds : \E kind \in Kinds : Start(c, kind)
    \/ \E c \in CallIds : FetchComplete(c)
    \/ clearCommentsCache

SpecCache == InitCache /\ [][NextCache]_vars

Done(c) == calls[c].pc = "done"
\* call c ran the build itself (it did not return a cached collection)
Built(c) == Done(c) /\ calls[c].result.inst = c
Range(q) == { q[k] : k \in 1..Len(q) }

\* C6: a getComments() call started after the previous call resolved, with no
\* clearCommentsCache() in between, returns the collection instance that call
\* returned and issues no fetch.
C6_SecondCallReturnsCache ==
    \A c \in CallIds :
        (Done(c) /\ calls[c].prev # NoCache) =>
            /\ calls[c].result = calls[c].prev
            /\ calls[c].fetched = <<>>

\* a call resolved with a collection it built from fetches, and the call started
\* next has resolved too
C6_Witness ==
    \E c, d \in CallIds :
        /\ Built(c) /\ calls[c].fetched # <<>>
        /\ Done(d) /\ calls[d].prev = calls[c].result
        /\ calls[d].result.inst = c

\* C7 as stated: the getComments() call that follows clearCommentsCache() runs a
\* full rebuild - it fetches every top-level id - and returns the tree of that
\* rebuild, whether or not an earlier build was in flight at the clear.
C7_RebuildAfterClear ==
    \A c \in CallIds :
        (Done(c) /\ calls[c].afterClear) =>
            /\ calls[c].result.inst = c
            /\ Range(commentIds) \subseteq Range(calls[c].fetched)

(***************************************************************************)
(* The tree a build should give, read off the item graph                   *)
(***************************************************************************)
ItemIds == DOMAIN items
\* the item whose kids list names i (0: i is a top-level comment)
ParentOf(i) ==
    IF \E j \in ItemIds : i \in Range(items[j].kids)
    THEN CHOOSE j \in ItemIds : i \in Range(items[j].kids)
    ELSE 0

\* i and the ids above it, up to its top-level comment
RECURSIVE PathTo(_)
PathTo(i) == IF i = 0 THEN {} ELSE {i} \cup PathTo(ParentOf(i))

\* q lists members of kids, in the order kids has them
IsSubsequence(q, kids) ==
    /\ \A a \in 1..Len(q) : \E b \in 1..Len(kids) : kids[b] = q[a]
    /\ \A a1, a2 \in 1..Len(q) :
          a1 < a2 =>
             \E b1, b2 \in 1..Len(kids) : b1 < b2 /\ kids[b1] = q[a1] /\ kids[b2] = q[a2]

\* every node of the forest, at any depth
RECURSIVE NodesOf(_)
NodesOf(comments) ==
    IF comments = <<>> THEN {}
    ELSE {Head(comments)} \cup NodesOf(Head(comments).replies) \cup NodesOf(Tail(comments))

\* C8: an id whose item is missing (null body or non-OK response), deleted or dead
\* gives no node and no placeholder, and nothing below it is included; the post
\* with kids [10, 11], 11 deleted, 10 with kids [20] gives the single top-level
\* node 10 with the single reply 20, and getAllCommentsFlat() returns 2 nodes.
C8_AbsentItemsLeaveNoNode ==
    \A c \in CallIds :
        Built(c) =>
            /\ \A i \in ItemIds :
                  absent(items[i].status) =>
                     \A j \in ItemIds :
                        i \in PathTo(j) => j \notin TreeIds(calls[c].result.tree)
            /\ TreeIds(calls[c].result.tree) \subseteq ItemIds
            /\ Cardinality(NodesOf(calls[c].result.tree))
                  = Cardinality(TreeIds(calls[c].result.tree))
            /\ (items = ScenarioItems /\ commentIds = ScenarioCommentIds) =>
                  /\ calls[c].result.tree = <<Node(10, <<Node(20, <<>>)>>)>>
                  /\ calls[c].kind = "getAllCommentsFlat" => Len(calls[c].flatResult) = 2

\* getAllCommentsFlat() has resolved on the scenario post
C8_Witness ==
    /\ items = ScenarioItems
    /\ commentIds = ScenarioCommentIds
    /\ \E c \in CallIds :
          /\ Built(c)
          /\ calls[c].kind = "getAllCommentsFlat"
          /\ calls[c].fetched = <<10, 20, 11>>
          /\ Len(calls[c].flatResult) = 2

\* C9: in the tree getComments() returns, the top-level nodes and the replies of
\* every node come in the order their ids have in the source kids list.
C9_KidsOrderPreserved ==
    \A c \in CallIds :
        Built(c) =>
            /\ IsSubsequence(IdsOf(calls[c].result.tree), commentIds)
            /\ \A n \in NodesOf(calls[c].result.tree) :
                  IsSubsequence(IdsOf(n.replies), items[n.id].kids)

\* a build kept two comments of one kids list around one it dropped
C9_Witness ==
    \E c \in CallIds :
        /\ Built(c)
        /\ Len(commentIds) = 3
        /\ IdsOf(calls[c].result.tree) = <<commentIds[1], commentIds[3]>>

\* C10: when the fetch or the parse of an item raises during a build,
\* getComments() still resolves and never rejects; the subtree below that item
\* is left out and every item reached through items that resolved is in the tree.
C10_FetchErrorLosesOnlySubtree ==
    \A c \in CallIds :
        /\ calls[c].pc # "rejected"
        /\ Built(c) =>
              \A i \in ItemIds :
                  i \in TreeIds(calls[c].result.tree)
                      <=> \A j \in PathTo(i) : items[j].status = "ok"

\* a build met an item whose fetch raised, dropped it and what is below it, and
\* kept a comment fetched after it
C10_Witness ==
    \E c \in CallIds :
        /\ Built(c)
        /\ \E k \in 1..Len(calls[c].fetched) :
              /\ items[calls[c].fetched[k]].status = "error"
              /\ Len(items[calls[c].fetched[k]].kids) > 0
              /\ \E m \in (k + 1)..Len(calls[c].fetched) :
                    calls[c].fetched[m] \in TreeIds(calls[c].result.tree)

\* the number of nodes of a forest
RECURSIVE SizeOf(_)
SizeOf(comments) ==
    IF comments = <<>> THEN 0
    ELSE 1 + SizeOf(Head(comments).replies) + SizeOf(Tail(comments))

\* in the list flatList, the members of siblings stand after place p, each one
\* right after the last node below the sibling before it
PlacedAfter(flatList, p, siblings) ==
    \A k \in 1..Len(siblings) :
        LET at == p + SizeOf(SubSeq(siblings, 1, k - 1)) + 1
        IN  /\ at \in 1..Len(flatList)
            /\ flatList[at] = siblings[k]

\* C23: getAllCommentsFlat() returns every node of the resolved tree exactly once
\* in pre-order: the first top-level comment comes first, the first reply of a node
\* comes right after the node, and a node's next sibling right after the last node
\* below it; the length is the number of nodes of the tree and at least the number
\* of top-level comments.
C23_FlatIsPreOrder ==
    \A c \in CallIds :
        (Done(c) /\ calls[c].kind = "getAllCommentsFlat") =>
            LET comments == calls[c].result.tree
                allComments == calls[c].flatResult
            IN  /\ Len(allComments) = SizeOf(comments)
                /\ Len(allComments) >= Len(comments)
                /\ PlacedAfter(allComments, 0, comments)
                /\ \A p \in 1..Len(allComments) :
                      PlacedAfter(allComments, p, allComments[p].replies)
                /\ Range(allComments) = NodesOf(comments)
                /\ \A p, q \in 1..Len(allComments) :
                      allComments[p].id = allComments[q].id => p = q

\* getAllCommentsFlat() returned a comment, its reply and then the comment's sibling
C23_Witness ==
    \E c \in CallIds :
        /\ Built(c)
        /\ calls[c].kind = "getAllCommentsFlat"
        /\ Len(calls[c].flatResult) = 3
        /\ Len(calls[c].result.tree) = 2
        /\ calls[c].flatResult[2] \in Range(calls[c].flatResult[1].replies)

\* C26: as long as clearCommentsCache() has not been called, every getComments()
\* call that has resolved, calls started during an earlier build included, returned
\* the same collection instance.
C26_OneInstanceWithoutClear ==
    clears = 0 =>
        \A c, d \in CallIds :
            (Done(c) /\ Done(d)) => calls[c].result.inst = calls[d].result.inst

\* the item fetches comment-tree building has outstanding: one for each call
\* suspended in fetchCommentTree at `await fetch(...)`
OutstandingFetches == Cardinality({ c \in CallIds : calls[c].pc = "fetching" })

\* C27: at every moment at most one item fetch issued by comment-tree building is
\* outstanding.
C27_OneFetchOutstanding == OutstandingFetches <= 1

\* the tree a finished build gives for a kids list: a node for every id whose item
\* resolved, holding the tree of that item's whole kids list
RECURSIVE CompleteTree(_)
CompleteTree(kids) ==
    IF kids = <<>> THEN <<>>
    ELSE (IF items[Head(kids)].status = "ok"
          THEN <<Node(Head(kids), CompleteTree(items[Head(kids)].kids))>>
          ELSE <<>>)
         \o CompleteTree(Tail(kids))

CompleteNode(n) == n.replies = CompleteTree(items[n.id].kids)

\* C28: a node is materialized only after all of its descendants: every node a
\* running build holds has its complete replies list; the cache is null or the
\* complete list; what getComments() and getAllCommentsFlat() resolve with is the
\* complete list and complete nodes, whatever builds are unfinished and whatever
\* clearCommentsCache() calls came in between.
C28_OnlyCompleteLists ==
    /\ commentsCache # NoCache => commentsCache.tree = CompleteTree(commentIds)
    /\ \A c \in CallIds :
          /\ \A k \in 1..Len(calls[c].stack) :
                \A n \in NodesOf(calls[c].stack[k].acc) : CompleteNode(n)
          /\ Done(c) =>
                /\ calls[c].result.tree = CompleteTree(commentIds)
                /\ \A p \in 1..Len(calls[c].flatResult) : CompleteNode(calls[c].flatResult[p])

\* a build is two levels deep, awaiting a reply, while the cache holds the list
\* another build finished
C28_Witness ==
    /\ commentsCache # NoCache
    /\ commentsCache.tree # <<>>
    /\ \E c \in CallIds :
          /\ calls[c].pc = "fetching"
          /\ Len(calls[c].stack) = 2

(***************************************************************************)
(* Specification of a build over a cyclic item graph: a tree-shaped graph  *)
(* of live items in which one item also lists itself or one of the items   *)
(* above it in its kids.  fetchCommentTree keeps no record of the ids on   *)
(* the way down, so the recursion is followed up to MaxDepth frames.       *)
(***************************************************************************)
\* the graph g with the id j added to the kids of item i
WithKid(g, i, j, front) ==
    [g EXCEPT ![i].kids = IF front THEN <<j>> \o @ ELSE Append(@, j)]

InitCycle ==
    /\ \E f \in ForestsOver(1..MaxItems) :
          \E i \in TreeIds(f) :
             \E j \in Ancestors(f, i) \cup {i} :
                \E front \in BOOLEAN :
                   /\ items = WithKid(GraphOf(f, [x \in TreeIds(f) |-> "ok"]), i, j, front)
                   /\ commentIds = IdsOf(f)
    /\ PostStart
    /\ FlattenIdle
    /\ WindowIdle
    /\ AppIdle
    /\ LibraryIdle

\* the next response arrives while the recursion is at most MaxDepth deep
FetchCompleteWithin(c) ==
    /\ Len(calls[c].stack) <= MaxDepth
    /\ FetchComplete(c)

NextCycle == (\E kind \in Kinds : Start(1, kind)) \/ FetchCompleteWithin(1)

SpecCycle == InitCycle /\ [][NextCycle]_vars

\* C11 as stated: an id already on the current root-to-node path is treated as
\* absent, so that no item is entered twice on one path and the recursion of a
\* build is never deeper than the number of items; the build over a graph in
\* which an item lists itself, or two items list each other, is then finite.
C11_CycleIsCut ==
    \A c \in CallIds :
        LET st == calls[c].stack
        IN  /\ \A a, b \in 1..Len(st) : a < b => st[a].id # st[b].id
            /\ Len(st) <= Cardinality(ItemIds) + 1

(***************************************************************************)
(* Specification of findComment: one findComment(commentId) call on any    *)
(* tree-shaped item graph as in the build specification, or on such a      *)
(* graph of live items in which one item is also listed in the kids of an  *)
(* item that is neither itself nor below it, so that the resolved tree     *)
(* holds that item twice.  The id looked for is any item id or an id no    *)
(* item has.                                                               *)
(***************************************************************************)
InitFind ==
    /\ \/ \E f \in ForestsOver(1..MaxItems) \cup Forests(ScenarioIds) :
             \E st \in [TreeIds(f) -> Statuses] :
                /\ items = GraphOf(f, st)
                /\ commentIds = IdsOf(f)
       \/ \E f \in ForestsOver(1..MaxItems) :
             \E i \in TreeIds(f) :
                \E j \in TreeIds(f) \ (Ancestors(f, i) \cup {i}) :
                   \E front \in BOOLEAN :
                      /\ items = WithKid(GraphOf(f, [x \in TreeIds(f) |-> "ok"]), i, j, front)
                      /\ commentIds = IdsOf(f)
    /\ PostStart
    /\ FlattenIdle
    /\ WindowIdle
    /\ AppIdle
    /\ LibraryIdle

NextFind ==
    \/ \E commentId \in ItemIds \cup {NoSuchId} : Begin(1, "findComment", commentId)
    \/ FetchComplete(1)

SpecFind == InitFind /\ [][NextFind]_vars

\* C22: findComment(id) returns a node of the resolved tree whose id is the
\* argument whenever the tree has such a node at any depth, the first one in
\* pre-order, and returns null when no node of the tree has that id.
C22_FindReturnsFirstMatch ==
    \A c \in CallIds :
        (Done(c) /\ calls[c].kind = "findComment") =>
            LET comments == calls[c].result.tree
                allComments == calls[c].flatResult
                p == calls[c].found
            IN  /\ calls[c].commentId \in TreeIds(comments) =>
                      /\ p \in 1..Len(allComments)
                      /\ allComments[p].id = calls[c].commentId
                      /\ allComments[p] \in NodesOf(comments)
                      /\ \A q \in 1..(p - 1) : allComments[q].id # calls[c].commentId
                /\ calls[c].commentId \notin TreeIds(comments) => p = 0

\* findComment found a reply that the tree holds twice
C22_Witness ==
    \E c \in CallIds :
        /\ Done(c)
        /\ calls[c].kind = "findComment"
        /\ calls[c].found > 1
        /\ \E q \in (calls[c].found + 1)..Len(calls[c].flatResult) :
              calls[c].flatResult[q].id = calls[c].commentId

(***************************************************************************)
(* App: the view state machine of tui/App.tsx                              *)
(*                                                                         *)
(* `state` is the AppState of useState; every handler is the reducer it    *)
(* hands to setState.  An asynchronous loader runs up to its await in the  *)
(* step of the key that calls it and is then kept in `pending`; the rest   *)
(* of it runs in the step in which its promise settles.  post.getComments()*)
(* resolves to the comment tree of the post (SpecBuild) and never rejects. *)
(***************************************************************************)

\* the posts client.getPosts serves for each feed, and the comment tree of each post
FeedKeys == {"1", "2"}
feedMap(input) == CASE input = "1" -> "top" [] input = "2" -> "new"
FeedPosts(feedType) ==
    CASE feedType = "top" -> <<1, 2>>
      [] feedType = "new" -> <<>>
PostComments(post) ==
    CASE post = 1 -> <<Node(11, <<Node(12, <<>>)>>)>>
      [] post = 2 -> <<Node(21, <<>>)>>

\* array[index]: <<element>>, or <<>> for undefined (indices count from 0)
At(array, index) ==
    IF 0 <= index /\ index < Len(array) THEN <<array[index + 1]>> ELSE <<>>

\* the input event handled last, named by the branch of useInput that took it:
\* "q", "h" (h or ?), "1-6", "escape" (Esc, or Backspace in the post view),
\* "move" (j, k, g, G and the arrows), "return", "o" (o or c), "r", " "
Key(k) == [type |-> "key", what |-> k]
Load(op, arg, cause) == [op |-> op, arg |-> arg, cause |-> cause]
\* the in-flight loads with one more / one less; they settle in any order
With(bag, load) == bag (+) SetToBag({load})
Without(bag, load) == bag (-) SetToBag({load})

initialState ==
    [view |-> "feed", feedType |-> "top", posts |-> <<>>, selectedPostIndex |-> 0,
     currentPost |-> NoPost, comments |-> <<>>, flatComments |-> <<>>,
     selectedCommentIndex |-> 0, collapsedComments |-> {}, loading |-> FALSE,
     error |-> NoError]

\* --- loadFeed ---
loadFeedBegin(prev) == [prev EXCEPT !.loading = TRUE, !.error = NoError]

\* faulty variant: the selection is kept when the posts arrive
loadFeedKeepingSelection(prev, feedType, posts) ==
    [prev EXCEPT !.feedType = feedType, !.posts = posts, !.loading = FALSE]

loadFeedDone(prev, feedType, posts) ==
    [prev EXCEPT !.feedType = feedType, !.posts = posts, !.loading = FALSE,
                 !.selectedPostIndex = 0]

\* faulty variant: the failure discards the posts loaded before
loadFeedFailedDiscarding(prev) ==
    [prev EXCEPT !.loading = FALSE, !.error = "Failed to load posts", !.posts = <<>>,
                 !.selectedPostIndex = 0]

loadFeedFailed(prev) == [prev EXCEPT !.loading = FALSE, !.error = "Failed to load posts"]

\* --- loadPostDetails ---
\* faulty variant: the selection and the collapse set of the last post are kept
loadPostDetailsKeepingSubState(prev, post) ==
    [prev EXCEPT !.view = "post", !.currentPost = post, !.loading = TRUE,
                 !.comments = <<>>, !.flatComments = <<>>]

loadPostDetailsBegin(prev, post) ==
    [prev EXCEPT !.view = "post", !.currentPost = post, !.loading = TRUE,
                 !.comments = <<>>, !.flatComments = <<>>,
                 !.selectedCommentIndex = 0, !.collapsedComments = {}]

loadPostDetailsDone(prev, comments) ==
    [prev EXCEPT !.comments = comments, !.flatComments = flattenComments(comments, {}, 0),
                 !.loading = FALSE]

\* --- useInput: h / ? ---
toggleHelp(prev) == [prev EXCEPT !.view = IF prev.view = "help" THEN "feed" ELSE "help"]

\* --- handleHelpInput ---
closeHelp(prev) == [prev EXCEPT !.view = "feed"]

\* --- handleFeedInput: navigation ---
movePost(prev, k) ==
    [prev EXCEPT !.selectedPostIndex =
        CASE k = "j" -> Min(prev.selectedPostIndex + 1, Len(prev.posts) - 1)
          [] k = "k" -> Max(prev.selectedPostIndex - 1, 0)
          [] k = "g" -> 0
          [] k = "G" -> Len(prev.posts) - 1]

\* --- handlePostInput: navigation, collapse/expand, back ---
moveComment(prev, k) ==
    [prev EXCEPT !.selectedCommentIndex =
        CASE k = "j" -> Min(prev.selectedCommentIndex + 1, Len(prev.flatComments) - 1)
          [] k = "k" -> Max(prev.selectedCommentIndex - 1, 0)
          [] k = "g" -> 0
          [] k = "G" -> Len(prev.flatComments) - 1]

toggleCollapse(prev, id) ==
    LET newCollapsed == toggle(prev.collapsedComments, id)
    IN  [prev EXCEPT !.collapsedComments = newCollapsed,
                     !.flatComments = flattenComments(prev.comments, newCollapsed, 0)]

\* the space key in the post view: toggles the selected comment, if there is one
pressSpace(s) ==
    LET selectedComment == At(s.flatComments, s.selectedCommentIndex)
    IN  IF selectedComment # <<>> THEN toggleCollapse(s, selectedComment[1].id) ELSE s

returnToFeed(prev) ==
    [prev EXCEPT !.view = "feed", !.currentPost = NoPost, !.comments = <<>>,
                 !.flatComments = <<>>]

\* --- the logger ---
\* logger.log(type, metadata): the record pushed (id and timestamp left out)
LogEvent(type, metadata) == [type |-> type, metadata |-> metadata]

\* what a step does to the logger: the events it logs, the post it tracks as
\* open and the value of the ref previousFeedType
Logger(entries, postId, feedType) ==
    /\ logged' = entries
    /\ currentPostId' = postId
    /\ previousFeedType' = feedType

Logging(entries) == Logger(entries, currentPostId, previousFeedType)

\* faulty variant: the branch always logs a collapse
toggleLogCollapsedOnly(s, selectedComment) ==
    LogEvent("comment.collapsed",
             [commentId |-> selectedComment.id,
              replyCount |-> Len(selectedComment.replies)])


\* the event the collapse/expand branch logs for the selected row
toggleLog(s, selectedComment) ==
    LogEvent(IF selectedComment.id \in s.collapsedComments
             THEN "comment.expanded" ELSE "comment.collapsed",
             [commentId |-> selectedComment.id,
              replyCount |-> Len(selectedComment.replies)])

\* --- the steps ---
\* input === 'q' outside the help view; the cleanup of the mount effect logs the exit
Quit ==
    /\ ~exited
    /\ state.view # "help"
    /\ exited' = TRUE
    /\ event' = Key("q")
    /\ Logging(<<LogEvent("app.exited", <<>>)>>)
    /\ UNCHANGED <<state, pending>>

\* input === 'h' || input === '?'
ToggleHelp ==
    /\ ~exited
    /\ state' = toggleHelp(state)
    /\ event' = Key("h")
    /\ Logging(IF state.view # "help"
               THEN <<LogEvent("help.opened",
                               [fromView |-> IF state.view = "post" THEN "post" ELSE "feed"])>>
               ELSE <<LogEvent("help.closed", <<>>)>>)
    /\ UNCHANGED <<pending, exited>>

\* a key of feedMap in the feed view
FeedShortcut(k) ==
    /\ ~exited
    /\ state.view = "feed"
    /\ BagCardinality(pending) < MaxPending
    /\ state' = loadFeedBegin(state)
    /\ pending' = With(pending, Load("loadFeed", feedMap(k), "key"))
    /\ event' = Key("1-6")
    /\ Logging(<<>>)
    /\ UNCHANGED exited

\* Esc in the help view
HelpEscape ==
    /\ ~exited
    /\ state.view = "help"
    /\ state' = closeHelp(state)
    /\ event' = Key("escape")
    /\ Logging(<<>>)
    /\ UNCHANGED <<pending, exited>>

\* j, k, g, G (and the arrows) in the feed view
FeedNavigate(k) ==
    /\ ~exited
    /\ state.view = "feed"
    /\ state' = movePost(state, k)
    /\ event' = Key("move")
    /\ Logging(<<>>)
    /\ UNCHANGED <<pending, exited>>

\* Enter in the feed view
FeedEnter ==
    /\ ~exited
    /\ state.view = "feed"
    /\ LET selectedPost == At(state.posts, state.selectedPostIndex)
       IN  IF selectedPost # <<>>
           THEN /\ BagCardinality(pending) < MaxPending
                /\ state' = loadPostDetailsBegin(state, selectedPost[1])
                /\ pending' = With(pending, Load("loadPostDetails", selectedPost[1], "return"))
                /\ Logger(<<LogEvent("post.viewed", [postId |-> selectedPost[1]])>>,
                          selectedPost[1], previousFeedType)
           ELSE /\ UNCHANGED <<state, pending>>
                /\ Logging(<<>>)
    /\ event' = Key("return")
    /\ UNCHANGED exited

\* o, or c or space, in the feed view: the browser is opened, the state is not touched
FeedOpenBrowser ==
    /\ ~exited
    /\ state.view = "feed"
    /\ event' = Key("o")
    /\ LET selectedPost == At(state.posts, state.selectedPostIndex)
       IN  IF selectedPost # <<>>
           THEN \E type \in {"article.opened_browser", "post.opened_browser"} :
                   Logging(<<LogEvent(type, [postId |-> selectedPost[1]])>>)
           ELSE Logging(<<>>)
    /\ UNCHANGED <<state, pending, exited>>

\* r in the feed view
FeedRefresh ==
    /\ ~exited
    /\ state.view = "feed"
    /\ BagCardinality(pending) < MaxPending
    /\ state' = loadFeedBegin(state)
    /\ pending' = With(pending, Load("loadFeed", state.feedType, "r"))
    /\ event' = Key("r")
    /\ Logging(<<LogEvent("feed.refreshed", [feedType |-> state.feedType])>>)
    /\ UNCHANGED exited

\* j, k, g, G (and the arrows) in the post view
PostNavigate(k) ==
    /\ ~exited
    /\ state.view = "post"
    /\ state' = moveComment(state, k)
    /\ event' = Key("move")
    /\ Logging(<<>>)
    /\ UNCHANGED <<pending, exited>>

\* space in the post view
PostToggle ==
    /\ ~exited
    /\ state.view = "post"
    /\ state' = pressSpace(state)
    /\ event' = Key(" ")
    /\ LET selectedComment == At(state.flatComments, state.selectedCommentIndex)
       IN  Logging(IF selectedComment # <<>>
                   THEN <<toggleLog(state, selectedComment[1])>> ELSE <<>>)
    /\ UNCHANGED <<pending, exited>>

\* o (the article) or c (the selected comment) in the post view: the browser is
\* opened, the state is not touched
PostOpenBrowser ==
    /\ ~exited
    /\ state.view = "post"
    /\ event' = Key("o")
    /\ LET selectedComment == At(state.flatComments, state.selectedCommentIndex)
       IN  \/ /\ state.currentPost # NoPost
              /\ Logging(<<LogEvent("article.opened_browser",
                                    [postId |-> state.currentPost])>>)
           \/ Logging(IF selectedComment # <<>> /\ state.currentPost # NoPost
                      THEN <<LogEvent("comment.opened_browser",
                                      [commentId |-> selectedComment[1].id,
                                       postId |-> state.currentPost])>>
                      ELSE <<>>)
    /\ UNCHANGED <<state, pending, exited>>

\* Esc or Backspace in the post view
PostBack ==
    /\ ~exited
    /\ state.view = "post"
    /\ state' = returnToFeed(state)
    /\ event' = Key("escape")
    /\ Logger(IF state.currentPost # NoPost
              THEN <<LogEvent("post.closed", [postId |-> state.currentPost])>> ELSE <<>>,
              NoPost, previousFeedType)
    /\ UNCHANGED <<pending, exited>>

\* client.getPosts resolves: loadFeed continues after its await
FeedLoaded(load) ==
    /\ ~exited
    /\ load.op = "loadFeed"
    /\ state' = loadFeedDone(state, load.arg, FeedPosts(load.arg))
    /\ pending' = Without(pending, load)
    /\ event' = [type |-> "feedLoaded", what |-> load.cause]
    /\ Logger((IF load.arg # previousFeedType
               THEN <<LogEvent("feed.changed", [from |-> previousFeedType, to |-> load.arg])>>
               ELSE <<>>)
              \o <<LogEvent("feed.loaded", [feedType |-> load.arg,
                                            postCount |-> Len(FeedPosts(load.arg))])>>,
              currentPostId, load.arg)
    /\ UNCHANGED exited

\* client.getPosts rejects: the catch of loadFeed
FeedFailed(load) ==
    /\ ~exited
    /\ load.op = "loadFeed"
    /\ state' = loadFeedFailed(state)
    /\ pending' = Without(pending, load)
    /\ event' = [type |-> "feedFailed", what |-> "loadFeed"]
    /\ Logging(<<LogEvent("load.failed", [what |-> "feed"])>>)
    /\ UNCHANGED exited

\* post.getComments resolves: loadPostDetails continues after its await
CommentsLoaded(load) ==
    /\ ~exited
    /\ load.op = "loadPostDetails"
    /\ state' = loadPostDetailsDone(state, PostComments(load.arg))
    /\ pending' = Without(pending, load)
    /\ event' = [type |-> "commentsLoaded", what |-> load.cause]
    /\ Logging(<<>>)
    /\ UNCHANGED exited

\* the mount effects have logged the start and called loadFeed(FeedType.TOP)
InitApp ==
    /\ state = loadFeedBegin(initialState)
    /\ pending = SetToBag({Load("loadFeed", "top", "mount")})
    /\ event = [type |-> "mount", what |-> "mount"]
    /\ exited = FALSE
    /\ logged = <<LogEvent("app.started", <<>>)>>
    /\ currentPostId = NoPost
    /\ previousFeedType = "top"
    /\ requested = "top"
    /\ FilterIdle
    /\ FlattenIdle
    /\ WindowIdle
    /\ PostIdle
    /\ LibraryIdle

MoveKeys == {"j", "k", "g", "G"}

NextApp ==
    /\ \/ Quit
       \/ ToggleHelp
       \/ \E k \in FeedKeys : FeedShortcut(k)
       \/ HelpEscape
       \/ \E k \in MoveKeys : FeedNavigate(k)
       \/ FeedEnter
       \/ FeedOpenBrowser
       \/ FeedRefresh
       \/ \E k \in MoveKeys : PostNavigate(k)
       \/ PostToggle
       \/ PostOpenBrowser
       \/ PostBack
       \/ \E load \in BagToSet(pending) :
             FeedLoaded(load) \/ FeedFailed(load) \/ CommentsLoaded(load)
    /\ UNCHANGED <<requested, filterVars, flattenVars, windowVars, postVars, libraryVars>>

SpecApp == InitApp /\ [][NextApp]_vars

\* C12 as stated: when the comments of a post arrive after the user went back to
\* the feed (view = feed, no current post), the result is dropped and no field of
\* the state changes.
C12_LateResultIsDropped ==
    [][(event'.type = "commentsLoaded" /\ state.view = "feed" /\ state.currentPost = NoPost)
          => state' = state]_vars

\* C13 as stated: a move or jump key in the post view leaves the selection within
\* 0..flatLength - 1 when the flat list is not empty, and is a no-op that leaves
\* the selection at 0 when the flat list is empty.
C13_CommentSelectionInRange ==
    [][(event' = Key("move") /\ state.view = "post") =>
          LET n == Len(state'.flatComments)
              sel == state'.selectedCommentIndex
          IN  /\ n > 0 => (0 <= sel /\ sel <= n - 1)
              /\ n = 0 => (sel = 0 /\ state' = state)]_vars

\* C14 as stated: selectedPostIndex is never negative and never beyond the last
\* post, whatever move keys and feed loads came before, also with no posts.
C14_PostSelectionInRange ==
    /\ state.selectedPostIndex >= 0
    /\ state.selectedPostIndex <= Max(Len(state.posts) - 1, 0)

\* C15 as stated: after a toggle-collapse, and after any other step that replaces
\* the flat list, a non-empty flat list has the selection at or before its last
\* index.
C15_SelectionReclamped ==
    [][(\/ event'.type = "commentsLoaded"
        \/ (event' = Key(" ") /\ state.view = "post"))
          => (Len(state'.flatComments) > 0
                => state'.selectedCommentIndex <= Len(state'.flatComments) - 1)]_vars

\* C16 as stated: in every state of the post view with a selected comment,
\* pressing the toggle key twice, with nothing in between, gives back the collapse
\* set and the flat list the state had before the first press.
C16_DoubleToggleRestores ==
    (state.view = "post" /\ At(state.flatComments, state.selectedCommentIndex) # <<>>) =>
        LET twice == pressSpace(pressSpace(state))
        IN  /\ twice.collapsedComments = state.collapsedComments
            /\ twice.flatComments = state.flatComments

\* C17 as stated: from the feed view and from the post view, opening the help view
\* with the toggle key and closing it, with the toggle key or with Esc, gives back
\* the state it was opened in, view included.
C17_HelpReturnsToOrigin ==
    state.view \in {"feed", "post"} =>
        /\ toggleHelp(toggleHelp(state)) = state
        /\ closeHelp(toggleHelp(state)) = state

\* C18 as stated: Esc or Backspace in the post view gives view = feed, no current
\* post, no comments, an empty flat list, selectedCommentIndex = 0 and an empty
\* collapse set.
C18_BackResetsSubState ==
    [][(event' = Key("escape") /\ state.view = "post") =>
          /\ state'.view = "feed"
          /\ state'.currentPost = NoPost
          /\ state'.comments = <<>>
          /\ state'.flatComments = <<>>
          /\ state'.selectedCommentIndex = 0
          /\ state'.collapsedComments = {}]_vars

\* C19: Enter in the feed view with a post at the selected index gives, in that one
\* step, view = post, currentPost = that post, loading, no comments, an empty flat
\* list, selectedCommentIndex = 0 and an empty collapse set, with the resolution of
\* its comments started and not yet settled; with no post at the selected index it
\* changes nothing and starts nothing.
C19_EnterOpensLoading ==
    [][(event' = Key("return") /\ state.view = "feed") =>
          LET selectedPost == At(state.posts, state.selectedPostIndex)
          IN  IF selectedPost # <<>>
              THEN /\ state'.view = "post"
                   /\ state'.currentPost = selectedPost[1]
                   /\ state'.loading
                   /\ state'.comments = <<>>
                   /\ state'.flatComments = <<>>
                   /\ state'.selectedCommentIndex = 0
                   /\ state'.collapsedComments = {}
                   /\ pending' = With(pending, Load("loadPostDetails", selectedPost[1], "return"))
              ELSE /\ state' = state
                   /\ pending' = pending]_vars

\* Enter has just opened the second post, and its comments are still to come
C19_Witness ==
    /\ event = Key("return")
    /\ state.view = "post"
    /\ state.currentPost = 2
    /\ state.loading
    /\ BagIn(Load("loadPostDetails", 2, "return"), pending)

\* C20: r in the feed view starts a load of the feed type the state has, and the
\* step in which that load succeeds puts the fetched posts in the state and the
\* post selection at 0.
C20_RefreshReloadsFeed ==
    [][/\ (event' = Key("r") /\ state.view = "feed") =>
             pending' = With(pending, Load("loadFeed", state.feedType, "r"))
       /\ (event'.type = "feedLoaded" /\ event'.what = "r") =>
             \E load \in BagToSet(pending) :
                /\ load.op = "loadFeed" /\ load.cause = "r"
                /\ pending' = Without(pending, load)
                /\ state'.feedType = load.arg
                /\ state'.posts = FeedPosts(load.arg)
                /\ state'.selectedPostIndex = 0]_vars

\* a refresh has just succeeded
C20_Witness ==
    /\ event = [type |-> "feedLoaded", what |-> "r"]
    /\ state.posts = <<1, 2>>
    /\ state.selectedPostIndex = 0
    /\ ~state.loading

\* the node of the tree with the id i
NodeOf(comments, i) == CHOOSE n \in NodesOf(comments) : n.id = i

\* the first place after k whose row is not below the row at k (Len + 1: none)
BlockEnd(flatList, k) ==
    IF \E e \in (k + 1)..Len(flatList) : flatList[e].depth <= flatList[k].depth
    THEN CHOOSE e \in (k + 1)..Len(flatList) :
            /\ flatList[e].depth <= flatList[k].depth
            /\ \A m \in (k + 1)..(e - 1) : flatList[m].depth > flatList[k].depth
    ELSE Len(flatList) + 1

\* the rows one level below the row at k, among the rows that follow it up to its
\* next sibling
RowsBelow(flatList, k) ==
    SelectSeq(SubSeq(flatList, k + 1, BlockEnd(flatList, k) - 1),
              LAMBDA r : r.depth = flatList[k].depth + 1)

\* C30: in flattenComments(T, C) from depth 0, the depth of every row is the number
\* of ancestors of its comment in T, its isCollapsed flag is the membership of its
\* id in C, and the replies of a comment that is not collapsed follow it
\* immediately, before its next sibling, in order and each at depth + 1.
C30_DepthFlagAndAdjacency ==
    \A k \in 1..Len(flat) :
        LET row == flat[k]
            replies == NodeOf(tree, row.id).replies
        IN  /\ row.depth = Cardinality(Ancestors(tree, row.id))
            /\ row.isCollapsed = (row.id \in collapsedSet)
            /\ ~row.isCollapsed =>
                  /\ replies # <<>> =>
                        /\ k + 1 <= Len(flat)
                        /\ flat[k + 1].id = replies[1].id
                        /\ flat[k + 1].depth = row.depth + 1
                  /\ IdsOf(RowsBelow(flat, k)) = IdsOf(replies)

\* a comment with two replies, the first of them with a reply of its own, is shown
\* with all three, and some row is flagged as collapsed
C30_Witness ==
    /\ \E k \in 1..Len(flat) : flat[k].isCollapsed
    /\ \E k \in 1..Len(flat) :
          /\ k + 3 <= Len(flat)
          /\ flat[k + 1].depth = flat[k].depth + 1
          /\ flat[k + 2].depth = flat[k].depth + 2
          /\ flat[k + 3].depth = flat[k].depth + 1

\* the ids and the depths of a flat list, in order
Shape(flatList) == [p \in 1..Len(flatList) |-> <<flatList[p].id, flatList[p].depth>>]

\* C29: pressing space on a selected comment that has no replies leaves the ids,
\* the order, the depths and the length of flatComments and selectedCommentIndex
\* unchanged; the collapse set changes in that comment's membership only and the
\* isCollapsed flag of that comment's row only.
C29_LeafToggleIsInvisible ==
    LET selectedComment == At(state.flatComments, state.selectedCommentIndex)
    IN  (/\ state.view = "post"
         /\ selectedComment # <<>>
         /\ \A n \in NodesOf(state.comments) :
               n.id = selectedComment[1].id => n.replies = <<>>) =>
            LET id == selectedComment[1].id
                after == pressSpace(state)
            IN  /\ Shape(after.flatComments) = Shape(state.flatComments)
                /\ after.selectedCommentIndex = state.selectedCommentIndex
                /\ after.collapsedComments \ {id} = state.collapsedComments \ {id}
                /\ (id \in after.collapsedComments) # (id \in state.collapsedComments)
                /\ \A p \in 1..Len(state.flatComments) :
                      after.flatComments[p].isCollapsed =
                         IF state.flatComments[p].id = id
                         THEN ~state.flatComments[p].isCollapsed
                         ELSE state.flatComments[p].isCollapsed

\* C21: the step in which a feed load fails sets error to a message and loading to
\* false and leaves posts, feedType, selectedPostIndex and view as they were; while
\* the error is shown, a move key in the feed view still moves the selection within
\* the posts loaded before, and Enter still opens the selected post.
C21_FailedLoadKeepsFeed ==
    [][/\ event'.type = "feedFailed" =>
             /\ state'.error # NoError
             /\ ~state'.loading
             /\ state'.posts = state.posts
             /\ state'.feedType = state.feedType
             /\ state'.selectedPostIndex = state.selectedPostIndex
             /\ state'.view = state.view
       /\ (state.error # NoError /\ state.view = "feed" /\ At(state.posts, state.selectedPostIndex) # <<>>) =>
             LET n == Len(state.posts)
                 sel == state.selectedPostIndex
             IN  /\ event' = Key("move") =>
                       /\ state'.posts = state.posts
                       /\ state'.selectedPostIndex
                             \in {Min(sel + 1, n - 1), Max(sel - 1, 0), 0, n - 1}
                 /\ event' = Key("return") =>
                       /\ state'.view = "post"
                       /\ state'.currentPost = state.posts[sel + 1]]_vars

\* after a failed refresh of a loaded feed, a move key has put the selection on
\* the second of the posts loaded before
C21_Witness ==
    /\ event = Key("move")
    /\ state.view = "feed"
    /\ state.error # NoError
    /\ ~state.loading
    /\ state.posts = <<1, 2>>
    /\ state.selectedPostIndex = 1

(***************************************************************************)
(* new HackerNewsPost(item): the payload is a HackerNewsItem with any      *)
(* subset of its fields present (a function from the names of the fields  *)
(* present to their values); id is typed as required but the constructor   *)
(* tests for it.  null is the string "null"; the Date is its milliseconds. *)
(***************************************************************************)
ItemFields ==
    {"id", "title", "url", "by", "score", "time", "descendants", "text", "type", "kids"}

\* the value a payload has for a field it has
ItemValues(field) ==
    CASE field = "id" -> {0, 123}
      [] field = "title" -> {"Show HN"}
      [] field = "url" -> {"https://example.com"}
      [] field = "by" -> {"pg"}
      [] field = "score" -> {57}
      [] field = "time" -> {1160}
      [] field = "descendants" -> {15}
      [] field = "text" -> {"<p>text"}
      [] field = "type" -> {"job"}
      [] field = "kids" -> {<<10, 11>>}

\* the payloads that have some of the given fields
RECURSIVE Payloads(_)
Payloads(fields) ==
    IF fields = {} THEN {<<>>}
    ELSE LET field == CHOOSE f \in fields : TRUE
             others == Payloads(fields \ {field})
         IN  others \cup { (field :> v) @@ payload : v \in ItemValues(field), payload \in others }

\* item.field ?? default
orElse(payload, field, default) ==
    IF field \in DOMAIN payload THEN payload[field] ELSE default

\* faulty variant: the author defaults to the empty string
HackerNewsPostAnonymous(payload) ==
    [id |-> payload["id"],
     title |-> orElse(payload, "title", ""),
     url |-> orElse(payload, "url", "null"),
     author |-> orElse(payload, "by", ""),
     score |-> orElse(payload, "score", 0),
     time |-> orElse(payload, "time", 0) * 1000,
     commentCount |-> orElse(payload, "descendants", 0),
     text |-> orElse(payload, "text", "null"),
     type |-> orElse(payload, "type", "story"),
     commentIds |-> orElse(payload, "kids", <<>>),
     commentsCache |-> NoCache]

\* the fields the constructor assigns, and the commentsCache initializer
HackerNewsPost(payload) ==
    [id |-> payload["id"],
     title |-> orElse(payload, "title", ""),
     url |-> orElse(payload, "url", "null"),
     author |-> orElse(payload, "by", "unknown"),
     score |-> orElse(payload, "score", 0),
     time |-> orElse(payload, "time", 0) * 1000,
     commentCount |-> orElse(payload, "descendants", 0),
     text |-> orElse(payload, "text", "null"),
     type |-> orElse(payload, "type", "story"),
     commentIds |-> orElse(payload, "kids", <<>>),
     commentsCache |-> NoCache]

\* new HackerNewsPost(newItem)
construct ==
    /\ thisPost = NoObject
    /\ thrown = NoError
    /\ IF "id" \notin DOMAIN newItem
       THEN /\ thrown' = "Item must have an id"
            /\ UNCHANGED thisPost
       ELSE /\ thisPost' = HackerNewsPost(newItem)
            /\ UNCHANGED thrown
    /\ UNCHANGED <<newItem, clientVars, flattenVars, windowVars, postVars, appVars>>

InitConstruct ==
    /\ newItem \in Payloads(ItemFields)
    /\ thisPost = NoObject
    /\ thrown = NoError
    /\ ClientIdle
    /\ FlattenIdle
    /\ WindowIdle
    /\ PostIdle
    /\ AppIdle

NextConstruct == construct

SpecConstruct == InitConstruct /\ [][NextConstruct]_vars

\* C24: constructing a HackerNewsPost from an item without an id throws 'Item must
\* have an id' and yields no post; from an item with an id it throws nothing and
\* yields a post with that id in which every optional field the item lacks has its
\* default: title '', url null, author 'unknown', score 0, commentCount 0, text null,
\* commentIds [].
C24_ConstructorDefaults ==
    [][IF "id" \notin DOMAIN newItem
       THEN /\ thrown' = "Item must have an id"
            /\ thisPost' = NoObject
       ELSE /\ thrown' = NoError
            /\ thisPost' # NoObject
            /\ thisPost'.id = newItem["id"]
            /\ "title" \notin DOMAIN newItem => thisPost'.title = ""
            /\ "url" \notin DOMAIN newItem => thisPost'.url = "null"
            /\ "by" \notin DOMAIN newItem => thisPost'.author = "unknown"
            /\ "score" \notin DOMAIN newItem => thisPost'.score = 0
            /\ "descendants" \notin DOMAIN newItem => thisPost'.commentCount = 0
            /\ "text" \notin DOMAIN newItem => thisPost'.text = "null"
            /\ "kids" \notin DOMAIN newItem => thisPost'.commentIds = <<>>]_vars

\* a post was constructed from an item that has an id, a title and nothing else
C24_Witness ==
    /\ DOMAIN newItem = {"id", "title"}
    /\ thisPost # NoObject
    /\ thisPost.id = 123
    /\ thisPost.title = "Show HN"
    /\ thisPost.author = "unknown"

(***************************************************************************)
(* HackerNewsClient.getPosts / getPostsByUser: one call with any limit     *)
(* around the two checks, against a server whose list request (the story   *)
(* ids of the feed, or the user with its submitted ids) succeeds or fails  *)
(* and whose k-th listed id gives a story, a comment or no post.           *)
(***************************************************************************)
DefaultLimit == 30
LimitCap == 500
Limits == ((-1)..MaxLimit) \cup {DefaultLimit, LimitCap - 1, LimitCap, LimitCap + 1}

\* what getPost(id) resolves with: null (response not ok, null body, deleted, dead,
\* or a throw it catches), or a post of type story or comment
Gives == {"null", "story", "comment"}
Ops == {"getPosts", "getPostsByUser"}

IdleGet ==
    [pc |-> "idle", op |-> "getPosts", limit |-> DefaultLimit, ids |-> <<>>, k |-> 0,
     posts |-> <<>>, requests |-> 0, error |-> NoError]

\* faulty variant: the list is not cut to the limit
sliceKeepingAll(array, end) == array

\* array.slice(0, end)
slice(array, end) ==
    LET to == IF end < 0 THEN Max(Len(array) + end, 0) ELSE Min(end, Len(array))
    IN  SubSeq(array, 1, to)

\* the two limit checks and, when they pass, the first request
getBegin(op, limit) ==
    /\ getCall.pc = "idle"
    /\ getCall' =
          IF limit <= 0
          THEN [getCall EXCEPT !.pc = "rejected", !.op = op, !.limit = limit,
                               !.error = "Limit must be greater than 0"]
          ELSE IF limit > LimitCap
          THEN [getCall EXCEPT !.pc = "rejected", !.op = op, !.limit = limit,
                               !.error = "Limit cannot exceed 500"]
          ELSE [getCall EXCEPT !.pc = "list", !.op = op, !.limit = limit,
                               !.requests = @ + 1]
    /\ UNCHANGED <<server, constructVars, flattenVars, windowVars, postVars, appVars>>

getPosts(limit) == getBegin("getPosts", limit)
getPostsByUser(limit) == getBegin("getPostsByUser", limit)

\* the loop over the cut list moves on to its next id, or the call returns posts
loopFrom(call, k) ==
    IF k > Len(call.ids)
    THEN [call EXCEPT !.pc = "resolved"]
    ELSE [call EXCEPT !.pc = "item", !.k = k, !.requests = @ + 1]

\* fetchStoryIds / getUser settles
ListArrives ==
    /\ getCall.pc = "list"
    /\ getCall' =
          IF ~server.listed
          THEN [getCall EXCEPT !.pc = "rejected",
                               !.error = IF getCall.op = "getPosts"
                                         THEN "Failed to fetch story IDs"
                                         ELSE "User not found"]
          ELSE loopFrom([getCall EXCEPT
                            !.ids = slice([k \in 1..Len(server.gives) |-> k], getCall.limit)],
                        1)
    /\ UNCHANGED <<server, constructVars, flattenVars, windowVars, postVars, appVars>>

\* getPost(id) settles for the id the loop awaits
PostArrives ==
    /\ getCall.pc = "item"
    /\ LET given == server.gives[getCall.ids[getCall.k]]
           pushed == IF getCall.op = "getPosts" THEN given # "null" ELSE given = "story"
           call == [getCall EXCEPT !.posts = IF pushed THEN Append(@, getCall.ids[getCall.k])
                                             ELSE @]
       IN  getCall' =
              IF getCall.op = "getPostsByUser" /\ pushed /\ Len(call.posts) >= call.limit
              THEN [call EXCEPT !.pc = "resolved"]
              ELSE loopFrom(call, getCall.k + 1)
    /\ UNCHANGED <<server, constructVars, flattenVars, windowVars, postVars, appVars>>

InitClient ==
    /\ \/ \E n \in 0..MaxStories :
             \E gives \in [1..n -> Gives] :
                server = [listed |-> TRUE, gives |-> gives]
       \/ server = [listed |-> FALSE, gives |-> <<>>]
    /\ getCall = IdleGet
    /\ ConstructIdle
    /\ FlattenIdle
    /\ WindowIdle
    /\ PostIdle
    /\ AppIdle

NextClient ==
    \/ \E limit \in Limits : getPosts(limit)
    \/ \E limit \in Limits : getPostsByUser(limit)
    \/ ListArrives
    \/ PostArrives

SpecClient == InitClient /\ [][NextClient]_vars

\* C25: getPosts and getPostsByUser reject with 'Limit must be greater than 0' when
\* limit <= 0 and with 'Limit cannot exceed 500' when limit > 500, having issued no
\* network request; a call that resolves returns at most limit posts.
C25_LimitChecked ==
    getCall.pc # "idle" =>
        /\ getCall.limit <= 0 =>
              /\ getCall.pc = "rejected"
              /\ getCall.error = "Limit must be greater than 0"
              /\ getCall.requests = 0
        /\ getCall.limit > 500 =>
              /\ getCall.pc = "rejected"
              /\ getCall.error = "Limit cannot exceed 500"
              /\ getCall.requests = 0
        /\ getCall.pc = "resolved" => Len(getCall.posts) <= getCall.limit

\* a call returned as many posts as its limit allows from a longer list
C25_Witness ==
    /\ getCall.pc = "resolved"
    /\ Len(getCall.posts) = getCall.limit
    /\ Len(server.gives) > getCall.limit

(***************************************************************************)
(* The event log of the UI                                                 *)
(***************************************************************************)

\* the row under the cursor of the post view, <<>> when there is none
SelectedRow(s) == At(s.flatComments, s.selectedCommentIndex)

\* C31: each toggle-collapse key event on a selected comment logs exactly one event,
\* and its type matches the transition applied to the collapse set:
\* comment.collapsed when the id was absent and is added, comment.expanded when the
\* id was present and is removed.
C31_ToggleLogsTransition ==
    [][(event' = Key(" ") /\ SelectedRow(state) # <<>>) =>
          LET id == SelectedRow(state)[1].id
          IN  /\ Len(logged') = 1
              /\ logged'[1].metadata.commentId = id
              /\ \/ /\ logged'[1].type = "comment.collapsed"
                    /\ id \notin state.collapsedComments
                    /\ id \in state'.collapsedComments
                 \/ /\ logged'[1].type = "comment.expanded"
                    /\ id \in state.collapsedComments
                    /\ id \notin state'.collapsedComments]_vars

\* a collapsed comment has just been expanded again, and the step logged it
C31_Witness ==
    /\ event = Key(" ")
    /\ Len(logged) = 1
    /\ logged[1].type = "comment.expanded"
    /\ logged[1].metadata.commentId \notin state.collapsedComments


\* C32: every transition that leaves the Help view, by the toggle key (h or ?) or by
\* Esc, logs a help.closed event.
C32_LeavingHelpLogsClosed ==
    [][(state.view = "help" /\ state'.view # "help") =>
          \E i \in DOMAIN logged' : logged'[i].type = "help.closed"]_vars


(***************************************************************************)
(* EventLogger.getFilteredEvents                                           *)
(*                                                                         *)
(* The log is a sequence of (type, timestamp) records; log appends one     *)
(* stamped with the clock, which does not run backwards.  A filter is a    *)
(* function on the fields that are not undefined.                          *)
(***************************************************************************)
MaxEvents == 2
MaxTime   == 2
MaxTake   == 1

EventTypes == {"post.viewed", "help.opened"}

FilterValues(field) ==
    CASE field = "types"     -> SUBSET EventTypes
      [] field = "startDate" -> 1..MaxTime
      [] field = "endDate"   -> 1..MaxTime
      [] field = "limit"     -> 0..MaxTake

RECURSIVE Filters(_)
Filters(fields) ==
    IF fields = {} THEN {<<>>}
    ELSE LET field == CHOOSE f \in fields : TRUE
             others == Filters(fields \ {field})
         IN  others \cup { (field :> v) @@ filter : v \in FilterValues(field), filter \in others }

\* Array.prototype.slice(start): a negative start counts from the end, and -0 is 0
sliceFrom(array, start) ==
    LET len  == Len(array)
        from == IF start < 0 THEN (IF len + start > 0 THEN len + start ELSE 0)
                ELSE (IF start < len THEN start ELSE len)
    IN  SubSeq(array, from + 1, len)

filterByTypes(array, filter) ==
    IF "types" \in DOMAIN filter /\ Cardinality(filter["types"]) > 0
    THEN SelectSeq(array, LAMBDA e : e.type \in filter["types"])
    ELSE array

filterByStart(array, filter) ==
    IF "startDate" \in DOMAIN filter
    THEN SelectSeq(array, LAMBDA e : e.timestamp >= filter["startDate"])
    ELSE array

filterByEnd(array, filter) ==
    IF "endDate" \in DOMAIN filter
    THEN SelectSeq(array, LAMBDA e : e.timestamp <= filter["endDate"])
    ELSE array

filterByLimit(array, filter) ==
    IF "limit" \in DOMAIN filter THEN sliceFrom(array, -filter["limit"]) ELSE array

getFilteredEvents(all, filter) ==
    filterByLimit(filterByEnd(filterByStart(filterByTypes(all, filter), filter), filter), filter)

\* logger.log(type, ...)
Log(type, now) ==
    /\ Len(events) < MaxEvents
    /\ events # <<>> => now >= events[Len(events)].timestamp
    /\ events' = Append(events, [type |-> type, timestamp |-> now])
    /\ filtered' = <<>>
    /\ UNCHANGED <<uiVars, loggerVars, requested, flattenVars, windowVars, postVars, libraryVars>>

\* logger.getFilteredEvents(filter); the call and what it returned are kept until
\* the log grows
GetFilteredEvents(filter) ==
    /\ filtered' = [filter |-> filter, result |-> getFilteredEvents(events, filter)]
    /\ UNCHANGED events
    /\ UNCHANGED <<uiVars, loggerVars, requested, flattenVars, windowVars, postVars, libraryVars>>

InitFilter ==
    /\ FilterIdle
    /\ UiIdle
    /\ FlattenIdle
    /\ WindowIdle
    /\ PostIdle
    /\ LibraryIdle

NextFilter ==
    \/ \E type \in EventTypes, now \in 1..MaxTime : Log(type, now)
    \/ \E filter \in Filters({"types", "startDate", "endDate", "limit"}) :
          GetFilteredEvents(filter)

SpecFilter == InitFilter /\ [][NextFilter]_vars

\* the events of a log that pass the type and date restrictions of a filter, in log order
Passing(all, filter) ==
    SelectSeq(all, LAMBDA e :
        /\ ("types" \in DOMAIN filter /\ filter["types"] # {}) => e.type \in filter["types"]
        /\ "startDate" \in DOMAIN filter => e.timestamp >= filter["startDate"]
        /\ "endDate" \in DOMAIN filter => e.timestamp <= filter["endDate"])

\* the last n elements of a sequence, all of it when it is shorter
LastN(array, n) ==
    IF n >= Len(array) THEN array ELSE SubSeq(array, Len(array) - n + 1, Len(array))

\* C33: getFilteredEvents with limit = n (any n >= 0) returns at most n events: the
\* last n, in log order, of the events that pass the type and date filters.
C33_LimitKeepsLastN ==
    (filtered # <<>> /\ "limit" \in DOMAIN filtered.filter) =>
        /\ Len(filtered.result) <= filtered.filter["limit"]
        /\ filtered.result = LastN(Passing(events, filtered.filter),
                                   filtered.filter["limit"])


(***************************************************************************)
(* The post view under overlapping loads                                   *)
(***************************************************************************)

\* the ids of the rows of a flat list, as a set
RowIds(rows) == {rows[i].id : i \in DOMAIN rows}

\* C34: in every reachable state with view = PostDetail, the comments and the
\* flattened list shown are either empty or the resolved tree of currentPost: a
\* resolution started for a different post never supplies the comments displayed
\* under currentPost.
C34_CommentsBelongToCurrentPost ==
    (state.view = "post" /\ state.currentPost # NoPost) =>
        /\ state.comments \in {<<>>, PostComments(state.currentPost)}
        /\ RowIds(state.flatComments) \subseteq
              {n.id : n \in NodesOf(PostComments(state.currentPost))}


\* C35: in every reachable state flatComments equals
\* flattenComments(comments, collapsedComments): the displayed flat list is the
\* projection of the stored tree under the stored collapse set, after any
\* interleaving of key events and load completions.
C35_FlatIsProjection ==
    state.flatComments = flattenComments(state.comments, state.collapsedComments, 0)


(***************************************************************************)
(* Feed loads that all succeed                                             *)
(*                                                                         *)
(* The UI with every client.getPosts resolving; requested records the feed *)
(* type of the last call of loadFeed (mount, keys 1-6, r).                 *)
(***************************************************************************)
NextFeeds ==
    /\ \/ \E k \in FeedKeys : FeedShortcut(k) /\ requested' = feedMap(k)
       \/ FeedRefresh /\ requested' = state.feedType
       \/ /\ \/ Quit
             \/ ToggleHelp
             \/ HelpEscape
             \/ \E k \in MoveKeys : FeedNavigate(k)
             \/ FeedEnter
             \/ FeedOpenBrowser
             \/ \E k \in MoveKeys : PostNavigate(k)
             \/ PostToggle
             \/ PostOpenBrowser
             \/ PostBack
             \/ \E load \in BagToSet(pending) : FeedLoaded(load) \/ CommentsLoaded(load)
          /\ UNCHANGED requested
    /\ UNCHANGED <<filterVars, flattenVars, windowVars, postVars, libraryVars>>

SpecFeeds == InitApp /\ [][NextFeeds]_vars

\* C36: if several feed loads are requested (keys 1-6 or r) and all of them succeed,
\* then once no load is outstanding the displayed feedType and posts are those of the
\* most recently requested feed, whatever the order in which the responses arrive.
C36_LastRequestedFeedShown ==
    pending = EmptyBag =>
        /\ state.feedType = requested
        /\ state.posts = FeedPosts(requested)


\* C37: while the comment resolution for the currently displayed post is outstanding,
\* loading stays true (the view never shows 'No comments yet' for a post whose
\* comments have not arrived), under any interleaving with feed loads and other
\* post loads.
C37_LoadingWhileCommentsOutstanding ==
    (/\ state.view = "post"
     /\ \E load \in BagToSet(pending) :
           load.op = "loadPostDetails" /\ load.arg = state.currentPost)
    => state.loading


(***************************************************************************)
(* The projection and the flatten-all traversal                            *)
(***************************************************************************)

\* C38: for every comment tree T, the id sequence of flattenComments(T, empty set)
\* equals the id sequence getAllCommentsFlat() produces for the same tree: with
\* nothing collapsed the two agree element by element.
C38_ProjectionAgreesWithFlattenAll ==
    /\ IdsOf(flattenComments(tree, {}, 0)) = IdsOf(allCommentsFlat(tree))
    /\ collapsedSet = {} => IdsOf(flat) = IdsOf(allCommentsFlat(tree))

\* nothing is collapsed in a tree with a comment, its reply and the comment's sibling,
\* and the projection lists them as the traversal does
C38_Witness ==
    /\ collapsedSet = {}
    /\ Len(tree) = 2
    /\ Len(flat) = 3
    /\ flat[2].depth = 1
    /\ IdsOf(flat) = IdsOf(allCommentsFlat(tree))


(***************************************************************************)
(* post.viewed and post.closed                                             *)
(*                                                                         *)
(* currentPostId is set by trackPostOpened, which loadPostDetails calls    *)
(* right before it logs post.viewed, and cleared by trackPostClosed, which *)
(* the return to the feed calls right before it logs post.closed: it names *)
(* the post whose post.viewed has no post.closed yet.                      *)
(***************************************************************************)

\* C39: every time the UI leaves PostDetail for a view that ends in Feed, a
\* post.closed event for that post is logged (and the open-post tracking cleared)
\* before any later post.viewed: post.viewed and post.closed strictly alternate in
\* the event log.
C39_ViewedAndClosedAlternate ==
    [][\A i \in DOMAIN logged' :
          /\ logged'[i].type = "post.viewed" => currentPostId = NoPost
          /\ logged'[i].type = "post.closed" =>
                /\ currentPostId # NoPost
                /\ logged'[i].metadata.postId = currentPostId
                /\ currentPostId' = NoPost]_vars


\* C40: the replyCount recorded in a comment.collapsed or comment.expanded event
\* equals the number of direct replies the toggled comment has in the resolved
\* comment tree.
C40_ReplyCountIsDirectReplies ==
    [][\A i \in DOMAIN logged' :
          logged'[i].type \in {"comment.collapsed", "comment.expanded"} =>
              LET id == logged'[i].metadata.commentId
              IN  /\ \E n \in NodesOf(state.comments) : n.id = id
                  /\ logged'[i].metadata.replyCount =
                        Len(NodeOf(state.comments, id).replies)]_vars


====
